---------------------------- MODULE Spec2Model ----------------------------
(***************************************************************************)
(* Client-side form validation of StayIn (script.js): the booking form,    *)
(* the contact form, the two field validators and the auto-hide timer of   *)
(* the success message.                                                    *)
(*                                                                         *)
(* Representation.                                                         *)
(*   - A text value is a sequence of one-character strings; "" is << >>.   *)
(*   - The value of a date input is "" (<< >>) or "YYYY-MM-DD", written    *)
(*     <<y, m, d>>: the zero-padded fixed-width text, so that the string   *)
(*     order of two such values is the lexicographic order of the tuples.  *)
(*   - A Date object is its time value in minutes since 1970-01-01T00:00Z. *)
(*     The local time zone is a fixed offset utcOffset (local = UTC +      *)
(*     utcOffset, in minutes); daylight-saving changes are not modelled.   *)
(*   - A pending timer is a record with a flag "due": whether its delay    *)
(*     has elapsed.  All timers have the same delay, so they become due,   *)
(*     and run, in the order they were started.                            *)
(***************************************************************************)
EXTENDS Integers, Sequences, FiniteSets, TLC

VARIABLES
    page,         \* document.body.id
    utcOffset,    \* the host's time zone: local time = UTC + utcOffset minutes
    clock,        \* the host's clock, minutes since the epoch (UTC)
    fields,       \* input id -> value of the input element
    checkinMin,   \* checkin.min
    checkoutMin,  \* checkout.min
    errors,       \* error element id -> [text, display]
    success,      \* the success-message element: [text, className, display]
    timers,       \* pending setTimeout callbacks, oldest first
    lastWrite,    \* history: who last wrote success.display, and over what
    fn,           \* validator harness: the validator called
    arg,          \* validator harness: its argument
    ret           \* validator harness: its result

vars == <<page, utcOffset, clock, fields, checkinMin, checkoutMin, errors,
          success, timers, lastWrite, fn, arg, ret>>

formVars == <<page, utcOffset, clock, fields, checkinMin, checkoutMin, errors,
              success, timers, lastWrite>>

harnessVars == <<fn, arg, ret>>

-----------------------------------------------------------------------------
(* Bounds *)

MaxPhoneLen == 11
MaxEmailLen == 6
MaxTimers == 2

-----------------------------------------------------------------------------
(* Characters and strings *)

EmptyString == << >>

\* \s of a JavaScript regular expression, restricted to the characters used
IsWhitespace(c) == c \in {" ", "\t", "\n"}

\* \d of a JavaScript regular expression (no unicode flag): 0-9 only
IsDigit(c) == c \in {"0", "1", "2", "3", "4", "5", "6", "7", "8", "9"}

\* String.prototype.trim() === ""
TrimIsEmpty(s) == \A i \in 1..Len(s) : IsWhitespace(s[i])

LowerChar(c) ==
    CASE c = "A" -> "a"
      [] c = "B" -> "b"
      [] c = "J" -> "j"
      [] OTHER -> c

\* String.prototype.toLowerCase()
ToLowerCase(s) == [i \in 1..Len(s) |-> LowerChar(s[i])]

\* the character class [^\s@]
EmailClass(c) == ~IsWhitespace(c) /\ c # "@"

\* /^[^\s@]+@[^\s@]+\.[^\s@]+$/.test(s): s splits as A+ "@" A+ "." A+
EmailRegexTest(s) ==
    \E i \in 2..Len(s), j \in 4..Len(s) :
        /\ i + 1 < j
        /\ j < Len(s)
        /\ s[i] = "@"
        /\ s[j] = "."
        /\ \A k \in 1..Len(s) : (k # i /\ k # j) => EmailClass(s[k])

\* email.includes('@') && email.includes('.')
validateEmailIncludes(email) ==
    /\ \E i \in 1..Len(email) : email[i] = "@"
    /\ \E i \in 1..Len(email) : email[i] = "."

validateEmail(email) == EmailRegexTest(ToLowerCase(email))

PhoneDigits == 10

\* /^\d{10}$/.test(s)
PhoneRegexTest(s) ==
    /\ Len(s) = PhoneDigits
    /\ \A i \in 1..Len(s) : IsDigit(s[i])

\* /\d{10}/.test(s): the pattern without its anchors
validatePhoneUnanchored(phone) ==
    \E i \in 1..Len(phone) :
        /\ i + PhoneDigits - 1 <= Len(phone)
        /\ \A k \in i..(i + PhoneDigits - 1) : IsDigit(phone[k])

validatePhone(phone) == PhoneRegexTest(phone)

-----------------------------------------------------------------------------
(* Dates *)

\* Date.UTC(y, m - 1, d) in days since the epoch (proleptic Gregorian)
DaysFromCivil(y, m, d) ==
    LET yy  == IF m <= 2 THEN y - 1 ELSE y
        era == yy \div 400
        yoe == yy - era * 400
        mp  == IF m > 2 THEN m - 3 ELSE m + 9
        doy == (153 * mp + 2) \div 5 + d - 1
        doe == yoe * 365 + yoe \div 4 - yoe \div 100 + doy
    IN  era * 146097 + doe - 719468

\* the calendar date <<y, m, d>> of a day number
CivilFromDays(n) ==
    LET z   == n + 719468
        era == z \div 146097
        doe == z - era * 146097
        yoe == (doe - doe \div 1460 + doe \div 36524 - doe \div 146096) \div 365
        doy == doe - (365 * yoe + yoe \div 4 - yoe \div 100)
        mp  == (5 * doy + 2) \div 153
        d   == doy - (153 * mp + 2) \div 5 + 1
        m   == IF mp < 10 THEN mp + 3 ELSE mp - 9
        y   == yoe + era * 400 + (IF m <= 2 THEN 1 ELSE 0)
    IN  <<y, m, d>>

\* new Date("YYYY-MM-DD"): a date-only string is read as midnight UTC
NewDate(value) == DaysFromCivil(value[1], value[2], value[3]) * (24 * 60)

\* the local calendar day number of a time value
LocalDay(t) == (t + utcOffset) \div (24 * 60)

\* date.setDate(date.getDate() + n): n local days later, same local time
SetDatePlus(t, n) == t + n * (24 * 60)

\* `${getFullYear()}-${pad(getMonth() + 1)}-${pad(getDate())}`: local fields
FormatLocalDate(t) == CivilFromDays(LocalDay(t))

\* date.setHours(0, 0, 0, 0): local midnight of the date's local day
SetHoursMidnight(t) == LocalDay(t) * (24 * 60) - utcOffset

\* a < b on two "YYYY-MM-DD" strings (string comparison)
DateStringLess(a, b) ==
    \/ a[1] < b[1]
    \/ a[1] = b[1] /\ a[2] < b[2]
    \/ a[1] = b[1] /\ a[2] = b[2] /\ a[3] < b[3]

-----------------------------------------------------------------------------
(* The document *)

BookingInputs ==
    {"name", "email", "phone", "country-code", "room-type", "checkin",
     "checkout", "guests"}

ContactInputs == {"contact-name", "contact-email", "subject", "message"}

\* the .error-message elements of each form: one per showError target
BookingErrorIds ==
    {"name-error", "email-error", "phone-error", "room-type-error",
     "checkin-error", "checkout-error", "guests-error"}

ContactErrorIds ==
    {"contact-name-error", "contact-email-error", "subject-error",
     "message-error"}

Hidden == [text |-> "", display |-> "none"]

\* showError without errorElement.style.display = "block"
showErrorTextOnly(errs, inputId, message) ==
    LET id == inputId \o "-error"
    IN  IF id \in DOMAIN errs
        THEN [errs EXCEPT ![id].text = message]
        ELSE errs

showError(errs, inputId, message) ==
    LET id == inputId \o "-error"
    IN  IF id \in DOMAIN errs
        THEN [errs EXCEPT ![id] = [text |-> message, display |-> "block"]]
        ELSE errs

clearError(errs, inputId) ==
    LET id == inputId \o "-error"
    IN  IF id \in DOMAIN errs THEN [errs EXCEPT ![id] = Hidden] ELSE errs

\* clearAllErrors that clears nothing
clearAllErrorsKeep(errs) == errs

clearAllErrors(errs) == [id \in DOMAIN errs |-> Hidden]

\* form.reset(): every control back to its default value, the empty one
\* form.reset() left out
FormResetKeep(f) == f

FormReset(f) == [id \in DOMAIN f |-> EmptyString]

\* the callback of setTimeout(() => { successMessage.style.display = "none" }, 5000)
HideDelayMs == 5000

NewTimer == [delay |-> HideDelayMs, due |-> FALSE]

\* clearTimeout of what is pending, then setTimeout
SetTimeoutReplacing(q) == << NewTimer >>

\* no setTimeout
SetTimeoutNone(q) == q

SetTimeout(q) == Append(q, NewTimer)

-----------------------------------------------------------------------------
(* Booking form: the check-in change handler *)

\* checkoutMinDate: the day after check-in, formatted from the local fields
CheckoutMinDate(checkinValue) ==
    FormatLocalDate(SetDatePlus(NewDate(checkinValue), 1))

\* ChangeCheckin(v): the user picks v in the check-in input; its "change"
\* listener runs
ChangeCheckin(v) ==
    /\ page = "page-booking"
    /\ v # fields["checkin"]
    /\ IF v # EmptyString
       THEN LET min == CheckoutMinDate(v)
                co  == fields["checkout"]
            IN  /\ checkoutMin' = min
                /\ fields' = [fields EXCEPT
                       !["checkin"] = v,
                       !["checkout"] = IF co # EmptyString /\ DateStringLess(co, min)
                                       THEN EmptyString ELSE co]
       ELSE /\ checkoutMin' = EmptyString
            /\ fields' = [fields EXCEPT !["checkin"] = v]
    /\ UNCHANGED <<page, utcOffset, clock, checkinMin, errors, success,
                   timers, lastWrite>>
    /\ UNCHANGED harnessVars

-----------------------------------------------------------------------------
(* Booking form: the submit handler *)

NameFails(f) == TrimIsEmpty(f["name"])

EmailMissing(f) == TrimIsEmpty(f["email"])

EmailInvalid(f) == ~EmailMissing(f) /\ ~validateEmail(f["email"])

CountryCodeFails(f) == TrimIsEmpty(f["country-code"])

PhoneMissing(f) == TrimIsEmpty(f["phone"])

PhoneInvalid(f) == ~PhoneMissing(f) /\ ~validatePhone(f["phone"])

RoomTypeFails(f) == f["room-type"] = EmptyString

CheckinMissing(f) == f["checkin"] = EmptyString

CheckoutMissing(f) == f["checkout"] = EmptyString

BothDates(f) == f["checkin"] # EmptyString /\ f["checkout"] # EmptyString

\* checkinDate < todayForCompare
CheckinInPast(f) ==
    BothDates(f) /\ NewDate(f["checkin"]) < SetHoursMidnight(clock)

\* checkoutDate < checkinDate
CheckoutNotAfterStrict(f) ==
    BothDates(f) /\ NewDate(f["checkout"]) < NewDate(f["checkin"])

\* checkoutDate <= checkinDate
CheckoutNotAfter(f) ==
    BothDates(f) /\ NewDate(f["checkout"]) <= NewDate(f["checkin"])

GuestsFails(f) == f["guests"] = EmptyString

\* isValid after the validations
BookingIsValid(f) ==
    ~ \/ NameFails(f)
      \/ EmailMissing(f)
      \/ EmailInvalid(f)
      \/ CountryCodeFails(f)
      \/ PhoneMissing(f)
      \/ PhoneInvalid(f)
      \/ RoomTypeFails(f)
      \/ CheckinMissing(f)
      \/ CheckoutMissing(f)
      \/ CheckinInPast(f)
      \/ CheckoutNotAfter(f)
      \/ GuestsFails(f)

\* the error elements after the validations, in the order of the code
BookingErrors(f, errs) ==
    LET e0 == clearAllErrors(errs)
        e1 == IF NameFails(f)
              THEN showError(e0, "name", "Full Name is required.") ELSE e0
        e2 == IF EmailMissing(f)
              THEN showError(e1, "email", "Email Address is required.")
              ELSE IF EmailInvalid(f)
              THEN showError(e1, "email",
                       "Please enter a valid email (e.g., name@example.com).")
              ELSE e1
        e3 == IF CountryCodeFails(f)
              THEN showError(e2, "phone", "Please select a country code.")
              ELSE e2
        e4 == IF PhoneMissing(f)
              THEN showError(e3, "phone", "Phone Number is required.")
              ELSE IF PhoneInvalid(f)
              THEN showError(e3, "phone", "Phone Number must be exactly 10 digits.")
              ELSE e3
        e5 == IF RoomTypeFails(f)
              THEN showError(e4, "room-type", "Please select a room type.") ELSE e4
        e6 == IF CheckinMissing(f)
              THEN showError(e5, "checkin", "Check-in date is required.") ELSE e5
        e7 == IF CheckoutMissing(f)
              THEN showError(e6, "checkout", "Check-out date is required.") ELSE e6
        e8 == IF CheckinInPast(f)
              THEN showError(e7, "checkin", "Check-in date cannot be in the past.")
              ELSE e7
        e9 == IF CheckoutNotAfter(f)
              THEN showError(e8, "checkout",
                       "Check-out date must be after the check-in date.")
              ELSE e8
    IN  IF GuestsFails(f)
        THEN showError(e9, "guests", "Please select the number of guests.")
        ELSE e9

\* the tail shared by both submit handlers: if (isValid) { show; reset; setTimeout }
HandleSubmission(isValid, text) ==
    /\ isValid => Len(timers) < MaxTimers
    /\ IF isValid
       THEN /\ success' = [text |-> text, className |-> "form-message success",
                           display |-> "block"]
            /\ fields' = FormReset(fields)
            /\ timers' = SetTimeout(timers)
            /\ lastWrite' = [by |-> "submit", value |-> "block", over |-> "none"]
       ELSE /\ success' = [success EXCEPT !.display = "none"]
            /\ fields' = fields
            /\ timers' = timers
            /\ lastWrite' = [by |-> "submit", value |-> "none",
                             over |-> success.display]

BookingSubmit ==
    /\ page = "page-booking"
    /\ errors' = BookingErrors(fields, errors)
    /\ HandleSubmission(BookingIsValid(fields),
                        "Booking confirmed! We will contact you shortly.")
    /\ UNCHANGED <<page, utcOffset, clock, checkinMin, checkoutMin>>
    /\ UNCHANGED harnessVars

-----------------------------------------------------------------------------
(* Contact form: the submit handler *)

ContactNameFails(f) == TrimIsEmpty(f["contact-name"])

ContactEmailMissing(f) == TrimIsEmpty(f["contact-email"])

ContactEmailInvalid(f) ==
    ~ContactEmailMissing(f) /\ ~validateEmail(f["contact-email"])

SubjectFails(f) == TrimIsEmpty(f["subject"])

MessageFails(f) == TrimIsEmpty(f["message"])

ContactIsValid(f) ==
    ~ \/ ContactNameFails(f)
      \/ ContactEmailMissing(f)
      \/ ContactEmailInvalid(f)
      \/ SubjectFails(f)
      \/ MessageFails(f)

ContactErrors(f, errs) ==
    LET e0 == clearAllErrors(errs)
        e1 == IF ContactNameFails(f)
              THEN showError(e0, "contact-name", "Your Name is required.") ELSE e0
        e2 == IF ContactEmailMissing(f)
              THEN showError(e1, "contact-email", "Email Address is required.")
              ELSE IF ContactEmailInvalid(f)
              THEN showError(e1, "contact-email",
                       "Please enter a valid email (e.g., name@example.com).")
              ELSE e1
        e3 == IF SubjectFails(f)
              THEN showError(e2, "subject", "Subject is required.") ELSE e2
    IN  IF MessageFails(f)
        THEN showError(e3, "message", "Message is required.") ELSE e3

ContactSubmit ==
    /\ page = "page-contact"
    /\ errors' = ContactErrors(fields, errors)
    /\ HandleSubmission(ContactIsValid(fields),
                        "Thank you! Your message has been sent.")
    /\ UNCHANGED <<page, utcOffset, clock, checkinMin, checkoutMin>>
    /\ UNCHANGED harnessVars

-----------------------------------------------------------------------------
(* Timers *)

\* time passes until the oldest timer that is not yet due becomes due
Elapse ==
    /\ \E i \in 1..Len(timers) :
          /\ ~timers[i].due
          /\ \A k \in 1..(i - 1) : timers[k].due
          /\ timers' = [timers EXCEPT ![i].due = TRUE]
    /\ UNCHANGED <<page, utcOffset, clock, fields, checkinMin, checkoutMin,
                   errors, success, lastWrite>>
    /\ UNCHANGED harnessVars

\* the event loop runs the oldest due callback: successMessage.style.display = "none"
TimerFire ==
    /\ timers # << >>
    /\ timers[1].due
    /\ timers' = Tail(timers)
    /\ success' = [success EXCEPT !.display = "none"]
    /\ lastWrite' = [by |-> "timer", value |-> "none", over |-> success.display]
    /\ UNCHANGED <<page, utcOffset, clock, fields, checkinMin, checkoutMin,
                   errors>>
    /\ UNCHANGED harnessVars

-----------------------------------------------------------------------------
(* Input values *)

NameValues == {EmptyString, <<" ">>, <<"A", "l">>}

EmailValues == {EmptyString, <<"a", "@", "b">>, <<"a", "@", "b", ".", "c">>}

CountryCodeValues == {EmptyString, <<"+", "9", "1">>}

PhoneValues ==
    {EmptyString, <<"1", "2", "3", "4", "5">>,
     <<"1", "2", "3", "4", "5", "6", "7", "8", "9", "0">>}

RoomTypeValues == {EmptyString, <<"d", "e", "l", "u", "x", "e">>}

GuestsValues == {EmptyString, <<"2">>}

TextValues == {EmptyString, <<" ">>, <<"H", "i">>}

Dates == {<<2024, 2, 27>>, <<2024, 2, 28>>, <<2024, 2, 29>>, <<2024, 3, 1>>,
          <<2024, 12, 31>>}

DateValues == {EmptyString} \cup Dates

\* the dates a session picks: 2024-02-29 is today or tomorrow on every host
SessionDateValues == {EmptyString, <<2024, 2, 29>>, <<2024, 3, 1>>}

\* the host: 2024-02-28T20:00Z, in New York (-05:00), London (+00:00) or
\* Kolkata (+05:30), where it is already 2024-02-29
Clocks == {NewDate(<<2024, 2, 28>>) + 20 * 60}

UtcOffsets == {-300, 0, 330}

\* every way to fill in the fields that no listener watches
BookingEntries ==
    [name : NameValues, email : EmailValues, countryCode : CountryCodeValues,
     phone : PhoneValues, roomType : RoomTypeValues, guests : GuestsValues]

ValidEntry ==
    [name |-> <<"A", "l">>, email |-> <<"a", "@", "b", ".", "c">>,
     countryCode |-> <<"+", "9", "1">>,
     phone |-> <<"1", "2", "3", "4", "5", "6", "7", "8", "9", "0">>,
     roomType |-> <<"d", "e", "l", "u", "x", "e">>, guests |-> <<"2">>]

EmptyEntry ==
    [name |-> EmptyString, email |-> EmptyString, countryCode |-> EmptyString,
     phone |-> EmptyString, roomType |-> EmptyString, guests |-> EmptyString]

\* the entries a session types: blank, complete, and complete but for one
\* or two fields
SessionBookingEntries ==
    {EmptyEntry, ValidEntry,
     [ValidEntry EXCEPT !.name = <<" ">>],
     [ValidEntry EXCEPT !.email = <<"a", "@", "b">>],
     [ValidEntry EXCEPT !.countryCode = EmptyString,
                        !.phone = <<"1", "2", "3", "4", "5">>]}

ContactEntries ==
    [name : NameValues, email : EmailValues, subject : TextValues,
     message : TextValues]

SessionContactEntries ==
    {c \in ContactEntries :
        /\ c.subject = c.message
        /\ c.name # EmptyString}

WithBookingEntry(f, e) ==
    [f EXCEPT !["name"] = e.name, !["email"] = e.email,
              !["country-code"] = e.countryCode, !["phone"] = e.phone,
              !["room-type"] = e.roomType, !["guests"] = e.guests]

WithContactEntry(f, e) ==
    [f EXCEPT !["contact-name"] = e.name, !["contact-email"] = e.email,
              !["subject"] = e.subject, !["message"] = e.message]

-----------------------------------------------------------------------------
(* The user *)

\* the user types into the booking fields that no listener watches
FillBooking(e) ==
    /\ page = "page-booking"
    /\ fields' = WithBookingEntry(fields, e)
    /\ fields' # fields
    /\ UNCHANGED <<page, utcOffset, clock, checkinMin, checkoutMin, errors,
                   success, timers, lastWrite>>
    /\ UNCHANGED harnessVars

\* the user sets the check-out input (no listener)
EditCheckout(v) ==
    /\ page = "page-booking"
    /\ v # fields["checkout"]
    /\ fields' = [fields EXCEPT !["checkout"] = v]
    /\ UNCHANGED <<page, utcOffset, clock, checkinMin, checkoutMin, errors,
                   success, timers, lastWrite>>
    /\ UNCHANGED harnessVars

FillContact(e) ==
    /\ page = "page-contact"
    /\ fields' = WithContactEntry(fields, e)
    /\ fields' # fields
    /\ UNCHANGED <<page, utcOffset, clock, checkinMin, checkoutMin, errors,
                   success, timers, lastWrite>>
    /\ UNCHANGED harnessVars

-----------------------------------------------------------------------------
(* Page load *)

HarnessIdle == fn = "none" /\ arg = EmptyString /\ ret = FALSE

\* DOMContentLoaded on a page whose form holds the values f
Loaded(p, f) ==
    /\ page = p
    /\ utcOffset \in UtcOffsets
    /\ clock \in Clocks
    /\ fields = f
    /\ checkinMin = (IF p = "page-booking" THEN FormatLocalDate(clock)
                     ELSE EmptyString)
    /\ checkoutMin = (IF p = "page-booking" /\ f["checkin"] # EmptyString
                      THEN CheckoutMinDate(f["checkin"]) ELSE EmptyString)
    /\ errors = [id \in (IF p = "page-booking" THEN BookingErrorIds
                         ELSE ContactErrorIds) |-> Hidden]
    /\ success = [text |-> "", className |-> "form-message", display |-> "none"]
    /\ timers = << >>
    /\ lastWrite = [by |-> "load", value |-> "none", over |-> "none"]

BlankBooking == [id \in BookingInputs |-> EmptyString]

BlankContact == [id \in ContactInputs |-> EmptyString]

\* a session: the page loads with a blank form
Init ==
    /\ \/ Loaded("page-booking", BlankBooking)
       \/ Loaded("page-contact", BlankContact)
    /\ HarnessIdle

Next ==
    \/ \E e \in SessionBookingEntries : FillBooking(e)
    \/ \E v \in SessionDateValues : ChangeCheckin(v)
    \/ \E v \in SessionDateValues : EditCheckout(v)
    \/ BookingSubmit
    \/ \E e \in SessionContactEntries : FillContact(e)
    \/ ContactSubmit
    \/ Elapse
    \/ TimerFire

Spec == Init /\ [][Next]_vars

\* the event loop runs a due callback, and time does not stop
Fairness == WF_vars(Elapse) /\ WF_vars(TimerFire)

LiveSpec == Init /\ [][Next]_vars /\ Fairness

\* one form, filled in any way, then handled: the listeners as functions of
\* the form's content and the host
FormInit ==
    /\ \/ \E e \in BookingEntries, ci \in DateValues, co \in DateValues :
             Loaded("page-booking",
                    [WithBookingEntry(BlankBooking, e) EXCEPT
                        !["checkin"] = ci, !["checkout"] = co])
       \/ \E e \in ContactEntries :
             Loaded("page-contact", WithContactEntry(BlankContact, e))
    /\ HarnessIdle

FormNext ==
    \/ \E v \in DateValues : ChangeCheckin(v)
    \/ BookingSubmit
    \/ ContactSubmit
    \/ Elapse
    \/ TimerFire

FormSpec == FormInit /\ [][FormNext]_vars

-----------------------------------------------------------------------------
(* The validators as functions: a page without either form, where a caller *)
(* types a text one character at a time and validates it after each        *)

EmailAlphabet == {"a", "B", "@", ".", " "}

PhoneAlphabet == {"0", "x", " "}

ValidatorInit ==
    /\ page = "page-home"
    /\ utcOffset = 0
    /\ clock \in Clocks
    /\ fields = << >>
    /\ checkinMin = EmptyString
    /\ checkoutMin = EmptyString
    /\ errors = << >>
    /\ success = [text |-> "", className |-> "form-message", display |-> "none"]
    /\ timers = << >>
    /\ lastWrite = [by |-> "load", value |-> "none", over |-> "none"]
    /\ arg = EmptyString
    /\ \/ fn = "validateEmail" /\ ret = validateEmail(EmptyString)
       \/ fn = "validatePhone" /\ ret = validatePhone(EmptyString)

CallValidateEmail(c) ==
    /\ fn = "validateEmail"
    /\ Len(arg) < MaxEmailLen
    /\ arg' = Append(arg, c)
    /\ ret' = validateEmail(arg')
    /\ UNCHANGED fn
    /\ UNCHANGED formVars

CallValidatePhone(c) ==
    /\ fn = "validatePhone"
    /\ Len(arg) < MaxPhoneLen
    /\ arg' = Append(arg, c)
    /\ ret' = validatePhone(arg')
    /\ UNCHANGED fn
    /\ UNCHANGED formVars

ValidatorNext ==
    \/ \E c \in EmailAlphabet : CallValidateEmail(c)
    \/ \E c \in PhoneAlphabet : CallValidatePhone(c)

ValidatorSpec == ValidatorInit /\ [][ValidatorNext]_vars

-----------------------------------------------------------------------------
(* Claims about the validators *)

Positions(s, c) == {i \in 1..Len(s) : s[i] = c}

Str12345 == <<"1", "2", "3", "4", "5">>

Str1234567890 == <<"1", "2", "3", "4", "5", "6", "7", "8", "9", "0">>

StrJohnAtExample ==
    <<"j", "o", "h", "n", "@", "e", "x", "a", "m", "p", "l", "e">>

StrJohnAtExampleCom == StrJohnAtExample \o <<".", "c", "o", "m">>

\* C6: validatePhone(s) is true iff s is exactly 10 decimal digits and
\* nothing else; "12345" is invalid and "1234567890" is valid.
C6_PhoneExactlyTenDigits ==
    /\ fn = "validatePhone" =>
          (ret <=> /\ Cardinality({i \in 1..Len(arg) : IsDigit(arg[i])}) = 10
                   /\ Cardinality({i \in 1..Len(arg) : ~IsDigit(arg[i])}) = 0)
    /\ ~validatePhone(Str12345)
    /\ validatePhone(Str1234567890)

C6_Witness ==
    /\ fn = "validatePhone"
    /\ ret
    /\ Len(arg) = 10

\* some "@" of s has whitespace right before or right after it
WhitespaceNextToAt(s) ==
    \E p \in Positions(s, "@") :
        \/ p > 1 /\ IsWhitespace(s[p - 1])
        \/ p < Len(s) /\ IsWhitespace(s[p + 1])

\* s has a "." somewhere after an "@"
DotAfterAt(s) ==
    \E p \in Positions(s, "@"), q \in Positions(s, ".") : p < q

\* s is local@domain.tld: local, domain and tld are not empty and hold
\* neither whitespace nor "@"
LocalAtDomainTld(s) ==
    /\ Cardinality(Positions(s, "@")) = 1
    /\ \A i \in 1..Len(s) : ~IsWhitespace(s[i])
    /\ LET at == CHOOSE p \in Positions(s, "@") : TRUE
       IN  /\ at > 1
           /\ \E q \in Positions(s, ".") : at + 1 < q /\ q < Len(s)

\* C7: validateEmail(s) is false when s has no "@", no "." after the "@", or
\* whitespace next to the "@", and true when s is local@domain.tld with
\* non-empty parts free of whitespace and "@"; "john@example" is invalid and
\* "john@example.com" is valid.
C7_EmailShape ==
    /\ fn = "validateEmail" =>
          /\ Positions(arg, "@") = {} => ~ret
          /\ ~DotAfterAt(arg) => ~ret
          /\ WhitespaceNextToAt(arg) => ~ret
          /\ LocalAtDomainTld(arg) => ret
    /\ ~validateEmail(StrJohnAtExample)
    /\ validateEmail(StrJohnAtExampleCom)

C7_Witness ==
    /\ fn = "validateEmail"
    /\ ret
    /\ \E i \in 1..Len(arg) : arg[i] = "B"

-----------------------------------------------------------------------------
(* Claims about the forms *)

Shown(errs, id) == errs[id].display = "block" /\ errs[id].text # ""

ShowsMessage(errs, id, message) ==
    errs[id].display = "block" /\ errs[id].text = message

\* the error element of each required field; the country code has none of
\* its own and reports on the phone's
ErrorElementOf(inputId) ==
    IF inputId = "country-code" THEN "phone-error" ELSE inputId \o "-error"

AllEmpty(f) == \A id \in DOMAIN f : f[id] = EmptyString

DateNotAfter(a, b) == a = b \/ DateStringLess(a, b)

\* C2: a booking submit with both dates present and the check-out date equal
\* to or earlier than the check-in date displays the check-out error, does
\* not show the success message and does not reset the form, whatever the
\* other fields hold.
C2_CheckoutNotAfterCheckinBlocks ==
    [][(/\ BookingSubmit
        /\ fields["checkin"] # EmptyString
        /\ fields["checkout"] # EmptyString
        /\ DateNotAfter(fields["checkout"], fields["checkin"])) =>
          /\ ShowsMessage(errors', "checkout-error",
                          "Check-out date must be after the check-in date.")
          /\ success'.display = "none"
          /\ fields' = fields]_vars

C2_Witness ==
    /\ page = "page-booking"
    /\ fields = [WithBookingEntry(BlankBooking, ValidEntry) EXCEPT
                    !["checkin"] = <<2024, 3, 1>>, !["checkout"] = <<2024, 3, 1>>]
    /\ ShowsMessage(errors, "checkout-error",
                    "Check-out date must be after the check-in date.")
    /\ \A id \in BookingErrorIds \ {"checkout-error"} : errors[id] = Hidden
    /\ success.display = "none"

\* the calendar date after d
NextCalendarDate(d) == CivilFromDays(DaysFromCivil(d[1], d[2], d[3]) + 1)

\* C3: for every non-empty check-in date D the change handler sets the
\* check-out minimum to D+1 and clears the check-out value iff one is present
\* and earlier than D+1; a check-out value on or after D+1 is left unchanged.
C3_CheckoutMinIsNextDay ==
    [][\A v \in Dates :
          ChangeCheckin(v) =>
             /\ checkoutMin' = NextCalendarDate(v)
             /\ fields'["checkout"] =
                   (IF /\ fields["checkout"] # EmptyString
                       /\ DateStringLess(fields["checkout"], NextCalendarDate(v))
                    THEN EmptyString
                    ELSE fields["checkout"])]_vars

\* today's calendar date on the host (todayString)
TodayString == FormatLocalDate(clock)

\* C5: on a booking submit with both dates present, the "cannot be in the
\* past" error is shown, and success blocked, iff the check-in calendar date
\* is strictly before today's calendar date; check-in today is accepted.
C5_CheckinPastIffBeforeToday ==
    [][(/\ BookingSubmit
        /\ fields["checkin"] # EmptyString
        /\ fields["checkout"] # EmptyString) =>
          /\ ShowsMessage(errors', "checkin-error",
                          "Check-in date cannot be in the past.")
                <=> DateStringLess(fields["checkin"], TodayString)
          /\ DateStringLess(fields["checkin"], TodayString)
                => success'.display = "none"]_vars

\* the rules of the booking form: <<failed, error element, message>>
BookingRules(f) ==
    {<<NameFails(f), "name-error", "Full Name is required.">>,
     <<EmailMissing(f), "email-error", "Email Address is required.">>,
     <<EmailInvalid(f), "email-error",
       "Please enter a valid email (e.g., name@example.com).">>,
     <<CountryCodeFails(f), "phone-error", "Please select a country code.">>,
     <<PhoneMissing(f), "phone-error", "Phone Number is required.">>,
     <<PhoneInvalid(f), "phone-error", "Phone Number must be exactly 10 digits.">>,
     <<RoomTypeFails(f), "room-type-error", "Please select a room type.">>,
     <<CheckinMissing(f), "checkin-error", "Check-in date is required.">>,
     <<CheckoutMissing(f), "checkout-error", "Check-out date is required.">>,
     <<CheckinInPast(f), "checkin-error", "Check-in date cannot be in the past.">>,
     <<CheckoutNotAfter(f), "checkout-error",
       "Check-out date must be after the check-in date.">>,
     <<GuestsFails(f), "guests-error", "Please select the number of guests.">>}

\* C8: booking validation does not short-circuit and each failing rule shows
\* its own error: after the submit handler returns, the error of every rule
\* that failed is displayed (the country-code error too when the phone rule
\* fails in the same submit) and no error of a rule that passed is.
C8_EachFailingRuleShowsItsError ==
    [][BookingSubmit =>
          \A r \in BookingRules(fields) :
              r[1] <=> ShowsMessage(errors', r[2], r[3])]_vars

\* every rule but the country code's shows its error iff it failed
BookingRulesButCountryCodeShown ==
    [][BookingSubmit =>
          \A r \in BookingRules(fields) :
              r[3] # "Please select a country code." =>
                  (r[1] <=> ShowsMessage(errors', r[2], r[3]))]_vars

-----------------------------------------------------------------------------
(* Claims about the success message and its timer *)

\* C4: a booking submit in which every rule passes shows the success message
\* and resets all fields to empty, and, if no further submit occurs, the
\* success message is eventually hidden once the auto-hide timer fires, and
\* stays hidden.
C4_ValidSubmitShowsResetsAndHides ==
    /\ [][(BookingSubmit /\ BookingIsValid(fields)) =>
             /\ success'.display = "block"
             /\ success'.text = "Booking confirmed! We will contact you shortly."
             /\ AllEmpty(fields')
             /\ \A id \in DOMAIN errors' : errors'[id] = Hidden]_vars
    /\ (success.display = "block") ~> (success.display = "none")
    /\ [][(success.display = "none" /\ success'.display = "block") =>
             (BookingSubmit \/ ContactSubmit)]_vars

C4_Witness ==
    /\ page = "page-booking"
    /\ success.display = "block"
    /\ success.text = "Booking confirmed! We will contact you shortly."
    /\ AllEmpty(fields)
    /\ Len(timers) = 1

\* what a step may do to the pending timers: nothing, start one more, let
\* time pass, or run the oldest one, which is due and hides the message
TimerStep ==
    \/ timers' = timers
    \/ timers' = Append(timers, NewTimer)
    \/ /\ Len(timers') = Len(timers)
       /\ \A i \in 1..Len(timers) :
             /\ timers'[i].delay = timers[i].delay
             /\ timers[i].due => timers'[i].due
    \/ /\ timers # << >>
       /\ timers[1].due
       /\ timers' = Tail(timers)
       /\ success'.display = "none"

\* C9: the auto-hide timer of a valid submit is never cancelled by a later
\* submit: it still fires and writes "hidden" to the same element, whose
\* visibility is always that of the last write among submits and timer
\* firings, so that a message shown by a second valid submit can be hidden
\* less than 5 seconds after it was shown.
C9_TimerNeverCancelled ==
    /\ [][TimerStep]_vars
    /\ [][(BookingSubmit \/ ContactSubmit) =>
             \A i \in 1..Len(timers) : timers'[i] = timers[i]]_vars
    /\ [](success.display = lastWrite.value)

\* a timer has just hidden a displayed message while the timer of the latest
\* valid submit, the one that displayed it, is not yet due
C9_Witness ==
    /\ lastWrite = [by |-> "timer", value |-> "none", over |-> "block"]
    /\ success.display = "none"
    /\ timers # << >>
    /\ ~timers[Len(timers)].due

AnyErrorShown == \E id \in DOMAIN errors : errors[id].display = "block"

\* the verdict of the page's submit handler on the form's content
PageFormIsValid ==
    IF page = "page-booking" THEN BookingIsValid(fields) ELSE ContactIsValid(fields)

\* C10: in every reachable state the success message is never displayed
\* while a field error of the form is displayed; a submit with a failing
\* rule never shows the success message and never resets the field values.
C10_NoSuccessWithErrors ==
    /\ [](~(success.display = "block" /\ AnyErrorShown))
    /\ [][((BookingSubmit \/ ContactSubmit) /\ ~PageFormIsValid) =>
             /\ success'.display = "none"
             /\ fields' = fields]_vars

\* a valid submit has replaced the errors of an earlier one by the message
C10_Witness ==
    /\ success.display = "block"
    /\ lastWrite = [by |-> "submit", value |-> "block", over |-> "none"]
    /\ Len(timers) = 2
    /\ ~AnyErrorShown

=============================================================================
